---- MODULE Spec2Model ----
(***************************************************************************)
(* Model of the overlay application: src/app.go (the Go side: hotkey       *)
(* registration, the Keydown listener goroutine, the hotkeyEvents handler  *)
(* goroutine, ShowOverlay / HideOverlay / OnWindowBlur / Cleanup) and      *)
(* src/frontend/src/App.tsx (the "show-overlay" subscription and the       *)
(* Escape key handler).                                                    *)
(*                                                                         *)
(* Every bound method and every callback is one action; the goroutines     *)
(* interleave with them one loop iteration at a time.                      *)
(***************************************************************************)
EXTENDS Naturals, Sequences, FiniteSets

\* ---------------------------------------------------------------- bounds
\* App values built with NewApp (the once-guard and the channel are shared
\* by all of them, a.ctx and a.hk are per value).
NumApps == 2
Apps == 1..NumApps

\* Key-down notifications that may be in flight (library queue + emitted
\* events not yet handled by the front-end) at any one time.
MaxPending == 2

\* Calls of hk.Unregister() that are followed.
MaxUnregCalls == 2

\* Bound-method calls that may be in progress at the same time.
MaxCalls == 2

\* ------------------------------------------------------------- constants
\* Capacity of the package-level hotkeyEvents channel.
RelayCapacity == 1

NIL == "nil"
HK  == "hk"

VARIABLES
    ctx,             \* a.ctx: has startup stored a context in this App
    hk,              \* a.hk: NIL or the registered hotkey handle
    hotkeyInitOnce,  \* TRUE once hotkeyInitOnce.Do has run its function
    hotkeyEvents,    \* number of elements buffered in the hotkeyEvents channel
    registered,      \* the OS-level binding of the hotkey is held
    keydown,         \* key-down notifications queued in hk.Keydown()
    keydownClosed,   \* hk.Keydown() has been closed by a successful Unregister
    listener,        \* goroutine of lines 51-56: "none", "running", "exited"
    handler,         \* goroutine of lines 59-63: "none", "running", "exited"
    subscribed,      \* the front-end has run EventsOn('show-overlay', ...)
    events,          \* "show-overlay" events emitted and not yet handled
    win,             \* the window: [visible, centered, onTop]
    calls,           \* window collaborator calls made by the last show/hide operation
    lastOp,          \* the last show/hide operation that ran
    prev,            \* the window as it was before the last show/hide operation
    unregCalls,      \* number of hk.Unregister() invocations so far
    regAttempts,     \* number of hk.Register() invocations so far
    running,         \* show/hide calls in progress: sequence of [op, todo, cut]
    cleanupRet,      \* what the last Cleanup call returned: "none", "false"
    latePress        \* the key combination was pressed after the binding was released

vars == << ctx, hk, hotkeyInitOnce, hotkeyEvents, registered, keydown,
           keydownClosed, listener, handler, subscribed, events, win, calls,
           lastOp, prev, unregCalls, regAttempts, running, cleanupRet,
           latePress >>

hotkeyVars == << hk, hotkeyInitOnce, registered, keydownClosed, unregCalls,
                 regAttempts >>
taskVars   == << listener, handler, hotkeyEvents >>
windowVars == << win, calls, lastOp, prev, running >>

ShowOps == {"onHotkey", "show"}
HideOps == {"onEscape", "onBlur", "hide"}

\* ------------------------------------------------- the window collaborator
\* One call on the window-manager control surface.
Collab(w, c) ==
    CASE c = "show"                  -> [w EXCEPT !.visible = TRUE]
      [] c = "hide"                  -> [w EXCEPT !.visible = FALSE]
      [] c = "center"                -> [w EXCEPT !.centered = TRUE]
      [] c = "setAlwaysOnTop(true)"  -> [w EXCEPT !.onTop = TRUE]
      [] c = "setAlwaysOnTop(false)" -> [w EXCEPT !.onTop = FALSE]

\* The calls of a method body, made one after another.
RECURSIVE Run(_, _)
Run(w, cs) == IF cs = << >> THEN w ELSE Run(Collab(w, Head(cs)), Tail(cs))


\* ShowOverlay without its WindowShow call.
ShowOverlayBodyNoShow == << "center", "setAlwaysOnTop(true)" >>

\* ShowOverlay centering the window before showing it.
ShowOverlayBodyCenterFirst == << "center", "show", "setAlwaysOnTop(true)" >>

\* Body of ShowOverlay: the window calls, in program order.
ShowOverlayBody == << "show", "center", "setAlwaysOnTop(true)" >>

\* HideOverlay that also gives up the always-on-top setting.
HideOverlayBodyDropsOnTop == << "hide", "setAlwaysOnTop(false)" >>

\* Body of HideOverlay.
HideOverlayBody == << "hide" >>

\* A show operation that toggles: it hides a window that is already visible.
WindowOpToggle(op, cs) ==
    /\ win' = IF op \in ShowOps /\ win.visible
              THEN Run(win, << "hide" >>)
              ELSE Run(win, cs)
    /\ calls' = IF op \in ShowOps /\ win.visible THEN << "hide" >> ELSE cs
    /\ prev' = win
    /\ lastOp' = op
    /\ UNCHANGED running

\* Running a show/hide operation named op whose body is cs.
WindowOp(op, cs) ==
    /\ win' = Run(win, cs)
    /\ calls' = cs
    /\ prev' = win
    /\ lastOp' = op
    /\ UNCHANGED running

\* ------------------------------------------------------------------ Init
\* The window as the application creates it.
InitWindow == [visible |-> FALSE, centered |-> FALSE, onTop |-> FALSE]

Init ==
    /\ ctx = [a \in Apps |-> FALSE]
    /\ hk = [a \in Apps |-> NIL]
    /\ hotkeyInitOnce = FALSE
    /\ hotkeyEvents = 0
    /\ registered = FALSE
    /\ keydown = 0
    /\ keydownClosed = FALSE
    /\ listener = "none"
    /\ handler = "none"
    /\ subscribed = FALSE
    /\ events = 0
    /\ win = InitWindow
    /\ calls = << >>
    /\ lastOp = "none"
    /\ prev = InitWindow
    /\ unregCalls = 0
    /\ regAttempts = 0
    /\ running = << >>
    /\ cleanupRet = "none"
    /\ latePress = FALSE

\* ------------------------------------------------------ the hotkey library
\* Registration that starts the two goroutines before looking at the error.
RegisterStartsTasksFirst(a, ok) ==
    /\ regAttempts' = regAttempts + 1
    /\ listener' = "running"
    /\ handler' = "running"
    /\ IF ok
       THEN registered' = TRUE /\ hk' = [hk EXCEPT ![a] = HK]
       ELSE UNCHANGED << registered, hk >>

\* hk.Register(): ok is the outcome the operating system gives.
Register(a, ok) ==
    /\ regAttempts' = regAttempts + 1
    /\ IF ok
       THEN /\ registered' = TRUE
            /\ hk' = [hk EXCEPT ![a] = HK]
            /\ listener' = "running"
            /\ handler' = "running"
       ELSE UNCHANGED << registered, hk, listener, handler >>

\* hk.Unregister(): fails when the hotkey is not registered or when the
\* operating system refuses (osOK = FALSE); on success the binding is
\* released and the Keydown channel is closed.
Unregister(osOK) ==
    /\ unregCalls < MaxUnregCalls
    /\ unregCalls' = unregCalls + 1
    /\ IF registered /\ osOK
       THEN registered' = FALSE /\ keydownClosed' = TRUE
       ELSE UNCHANGED << registered, keydownClosed >>

\* The user presses the key combination.  The press reaches the program
\* only while the binding is held.
KeyPress ==
    /\ keydown + events < MaxPending
    /\ IF registered
       THEN keydown' = keydown + 1 /\ UNCHANGED latePress
       ELSE latePress' = (latePress \/ keydownClosed) /\ UNCHANGED keydown
    /\ UNCHANGED << ctx, hotkeyVars, taskVars, subscribed, events, windowVars,
                    cleanupRet >>

\* ------------------------------------------------------------- App.startup
\* A startup without the once-guard: every call registers a hotkey.
startupNoOnce(a, ok) ==
    /\ regAttempts < NumApps + 1
    /\ ctx' = [ctx EXCEPT ![a] = TRUE]
    /\ hotkeyInitOnce' = TRUE
    /\ Register(a, ok)
    /\ UNCHANGED << hotkeyEvents, keydown, keydownClosed, subscribed, events,
                    windowVars, unregCalls, cleanupRet, latePress >>

\* A startup that also shows the window.
startupShowsWindow(a, ok) ==
    /\ ctx' = [ctx EXCEPT ![a] = TRUE]
    /\ IF ~hotkeyInitOnce
       THEN hotkeyInitOnce' = TRUE /\ Register(a, ok)
       ELSE UNCHANGED << hotkeyInitOnce, registered, hk, listener, handler,
                         regAttempts >>
    /\ win' = Collab(win, "show")
    /\ UNCHANGED << hotkeyEvents, keydown, keydownClosed, subscribed, events,
                    calls, lastOp, prev, running, unregCalls, cleanupRet,
                    latePress >>

startup(a, ok) ==
    /\ ctx' = [ctx EXCEPT ![a] = TRUE]
    /\ IF ~hotkeyInitOnce
       THEN hotkeyInitOnce' = TRUE /\ Register(a, ok)
       ELSE UNCHANGED << hotkeyInitOnce, registered, hk, listener, handler,
                         regAttempts >>
    /\ UNCHANGED << hotkeyEvents, keydown, keydownClosed, subscribed, events,
                    windowVars, unregCalls, cleanupRet, latePress >>

\* A listener loop that hands the notification to the hotkeyEvents channel
\* (a send that is skipped when the buffer is full).
ListenerRelays ==
    /\ listener = "running"
    /\ keydown > 0
    /\ keydown' = keydown - 1
    /\ hotkeyEvents' = IF hotkeyEvents < RelayCapacity
                       THEN hotkeyEvents + 1
                       ELSE hotkeyEvents
    /\ UNCHANGED << ctx, hotkeyVars, listener, handler, subscribed, events,
                    windowVars, cleanupRet, latePress >>

\* A listener loop that drops a notification while a show request is pending.
ListenerEmitCoalesced ==
    /\ listener = "running"
    /\ keydown > 0
    /\ keydown' = keydown - 1
    /\ events' = IF subscribed /\ events < RelayCapacity THEN events + 1 ELSE events
    /\ UNCHANGED << ctx, hotkeyVars, taskVars, subscribed, windowVars,
                    cleanupRet, latePress >>

\* A listener loop that runs ShowOverlay itself for every key-down.
ListenerShowsDirectly ==
    /\ listener = "running"
    /\ keydown > 0
    /\ keydown' = keydown - 1
    /\ WindowOp("onHotkey", ShowOverlayBody)
    /\ UNCHANGED << ctx, hotkeyVars, taskVars, subscribed, events,
                    cleanupRet, latePress >>

\* One iteration of "for range hk.Keydown()": EventsEmit(ctx, "show-overlay").
\* An event emitted while nothing is subscribed reaches no callback.
ListenerEmit ==
    /\ listener = "running"
    /\ keydown > 0
    /\ keydown' = keydown - 1
    /\ events' = IF subscribed THEN events + 1 ELSE events
    /\ UNCHANGED << ctx, hotkeyVars, taskVars, subscribed, windowVars,
                    cleanupRet, latePress >>

\* A loop "for { <-hk.Keydown(); EventsEmit(...) }": a receive on the closed
\* channel returns at once and the loop emits again instead of ending.
ListenerSpin ==
    /\ listener = "running"
    /\ keydown = 0
    /\ keydownClosed
    /\ subscribed
    /\ events < MaxPending
    /\ events' = events + 1
    /\ UNCHANGED << ctx, hotkeyVars, taskVars, keydown, subscribed, windowVars,
                    cleanupRet, latePress >>

\* The range loop ends when the channel is closed and drained.
ListenerExit ==
    /\ listener = "running"
    /\ keydown = 0
    /\ keydownClosed
    /\ listener' = "exited"
    /\ UNCHANGED << ctx, hotkeyVars, handler, hotkeyEvents, keydown, subscribed,
                    events, windowVars, cleanupRet, latePress >>

\* One iteration of "for range hotkeyEvents": a.ShowOverlay().
HandlerRecv ==
    /\ handler = "running"
    /\ hotkeyEvents > 0
    /\ hotkeyEvents' = hotkeyEvents - 1
    /\ WindowOp("show", ShowOverlayBody)
    /\ UNCHANGED << ctx, hotkeyVars, listener, handler, keydown, subscribed,
                    events, cleanupRet, latePress >>

\* ------------------------------------------------------- the bound methods
ShowOverlay(a) ==
    /\ ctx[a]
    /\ WindowOp("show", ShowOverlayBody)
    /\ UNCHANGED << ctx, hotkeyVars, taskVars, keydown, subscribed, events,
                    cleanupRet, latePress >>

HideOverlay(a) ==
    /\ ctx[a]
    /\ WindowOp("hide", HideOverlayBody)
    /\ UNCHANGED << ctx, hotkeyVars, taskVars, keydown, subscribed, events,
                    cleanupRet, latePress >>

\* OnWindowBlur that returns without calling HideOverlay.
OnWindowBlurNoHide(a) ==
    /\ ctx[a]
    /\ WindowOp("onBlur", << >>)
    /\ UNCHANGED << ctx, hotkeyVars, taskVars, keydown, subscribed, events,
                    cleanupRet, latePress >>

OnWindowBlur(a) ==
    /\ ctx[a]
    /\ WindowOp("onBlur", HideOverlayBody)
    /\ UNCHANGED << ctx, hotkeyVars, taskVars, keydown, subscribed, events,
                    cleanupRet, latePress >>

\* Cleanup that vetoes the close when Unregister reports an error.
CleanupBlocksOnError(a) ==
    /\ IF hk[a] # NIL
       THEN \E osOK \in BOOLEAN :
              /\ Unregister(osOK)
              /\ cleanupRet' = IF registered /\ osOK THEN "false" ELSE "true"
       ELSE /\ UNCHANGED << registered, keydownClosed, unregCalls >>
            /\ cleanupRet' = "false"
    /\ UNCHANGED << ctx, hk, hotkeyInitOnce, regAttempts, taskVars, keydown,
                    subscribed, events, windowVars, latePress >>

\* Cleanup without the "a.hk != nil" test.
CleanupNoGuard(a) ==
    /\ \E osOK \in BOOLEAN : Unregister(osOK)
    /\ cleanupRet' = "false"
    /\ UNCHANGED << ctx, hk, hotkeyInitOnce, regAttempts, taskVars, keydown,
                    subscribed, events, windowVars, latePress >>

Cleanup(a) ==
    /\ IF hk[a] # NIL
       THEN \E osOK \in BOOLEAN : Unregister(osOK)
       ELSE UNCHANGED << registered, keydownClosed, unregCalls >>
    /\ cleanupRet' = "false"
    /\ UNCHANGED << ctx, hk, hotkeyInitOnce, regAttempts, taskVars, keydown,
                    subscribed, events, windowVars, latePress >>

\* ------------------------------------------------------------ the front-end
\* useEffect of App.tsx: EventsOn('show-overlay', ...) and the keydown listener.
FrontendMount ==
    /\ ~subscribed
    /\ \E a \in Apps : ctx[a]
    /\ subscribed' = TRUE
    /\ UNCHANGED << ctx, hotkeyVars, taskVars, keydown, events, windowVars,
                    cleanupRet, latePress >>

\* The callback of EventsOn('show-overlay'): ShowOverlay().
OnShowOverlay(a) ==
    /\ subscribed
    /\ events > 0
    /\ ctx[a]
    /\ events' = events - 1
    /\ WindowOp("onHotkey", ShowOverlayBody)
    /\ UNCHANGED << ctx, hotkeyVars, taskVars, keydown, subscribed,
                    cleanupRet, latePress >>

Keys == {"Escape", "g"}

handleEscape(a, key) ==
    /\ subscribed
    /\ ctx[a]
    /\ IF key = "Escape"
       THEN WindowOp("onEscape", HideOverlayBody)
       ELSE UNCHANGED windowVars
    /\ UNCHANGED << ctx, hotkeyVars, taskVars, keydown, subscribed, events,
                    cleanupRet, latePress >>

\* ------------------------------------------------------------------- Next
Next ==
    \/ \E a \in Apps, ok \in BOOLEAN : startup(a, ok)
    \/ KeyPress
    \/ ListenerEmit
    \/ ListenerExit
    \/ FrontendMount
    \/ \E a \in Apps : OnShowOverlay(a)
    \/ \E a \in Apps, key \in Keys : handleEscape(a, key)
    \/ \E a \in Apps : ShowOverlay(a)
    \/ \E a \in Apps : HideOverlay(a)
    \/ \E a \in Apps : OnWindowBlur(a)
    \/ \E a \in Apps : Cleanup(a)

Spec == Init /\ [][Next]_vars

\* ------------------------------------------ bound methods called concurrently
\* The methods take no lock, and the runtime serves every call the front-end
\* makes on a goroutine of its own: a call begins, makes its window calls
\* one at a time, and returns after the last one.  Calls in progress
\* interleave window call by window call.
BodyOf(op) == IF op \in ShowOps THEN ShowOverlayBody ELSE HideOverlayBody

Begin(op) ==
    /\ Len(running) < MaxCalls
    /\ running' = Append(running, [op |-> op, todo |-> BodyOf(op), cut |-> FALSE])
    /\ UNCHANGED << win, calls, lastOp, prev >>

CallShowOverlay(a) ==
    /\ ctx[a]
    /\ Begin("show")
    /\ UNCHANGED << ctx, hotkeyVars, taskVars, keydown, subscribed, events,
                    cleanupRet, latePress >>

CallHideOverlay(a) ==
    /\ ctx[a]
    /\ Begin("hide")
    /\ UNCHANGED << ctx, hotkeyVars, taskVars, keydown, subscribed, events,
                    cleanupRet, latePress >>

CallOnWindowBlur(a) ==
    /\ ctx[a]
    /\ Begin("onBlur")
    /\ UNCHANGED << ctx, hotkeyVars, taskVars, keydown, subscribed, events,
                    cleanupRet, latePress >>

\* The callback of EventsOn('show-overlay') starts a ShowOverlay call.
CallOnShowOverlay(a) ==
    /\ subscribed
    /\ events > 0
    /\ ctx[a]
    /\ events' = events - 1
    /\ Begin("onHotkey")
    /\ UNCHANGED << ctx, hotkeyVars, taskVars, keydown, subscribed,
                    cleanupRet, latePress >>

\* handleEscape starts a HideOverlay call.
CallHandleEscape(a, key) ==
    /\ subscribed
    /\ ctx[a]
    /\ IF key = "Escape"
       THEN Begin("onEscape")
       ELSE UNCHANGED windowVars
    /\ UNCHANGED << ctx, hotkeyVars, taskVars, keydown, subscribed, events,
                    cleanupRet, latePress >>

\* Is the call r part-way through the body of ShowOverlay?
MidShow(r) == r.op \in ShowOps /\ Len(r.todo) \in 1..(Len(ShowOverlayBody) - 1)

\* running without its i-th element.
Drop(seq, i) == [j \in 1..(Len(seq) - 1) |-> IF j < i THEN seq[j] ELSE seq[j + 1]]

\* The call in progress number i makes its next window call, and returns if
\* that was its last.  cut records, for every other call, that a hide landed
\* between two window calls of its ShowOverlay.
WindowCall(i) ==
    /\ i \in 1..Len(running)
    /\ LET r    == running[i]
           c    == Head(r.todo)
           rest == Tail(r.todo)
           seen == [j \in 1..Len(running) |->
                      IF j = i THEN [r EXCEPT !.todo = rest]
                      ELSE IF c = "hide" /\ MidShow(running[j])
                           THEN [running[j] EXCEPT !.cut = TRUE]
                           ELSE running[j]]
       IN /\ win' = Collab(win, c)
          /\ IF rest = << >>
             THEN lastOp' = r.op /\ running' = Drop(seen, i)
             ELSE lastOp' = lastOp /\ running' = seen
    /\ UNCHANGED << ctx, hotkeyVars, taskVars, keydown, subscribed, events,
                    calls, prev, cleanupRet, latePress >>

NextConc ==
    \/ \E a \in Apps, ok \in BOOLEAN : startup(a, ok)
    \/ KeyPress
    \/ ListenerEmit
    \/ ListenerExit
    \/ FrontendMount
    \/ \E a \in Apps : CallOnShowOverlay(a)
    \/ \E a \in Apps, key \in Keys : CallHandleEscape(a, key)
    \/ \E a \in Apps : CallShowOverlay(a)
    \/ \E a \in Apps : CallHideOverlay(a)
    \/ \E a \in Apps : CallOnWindowBlur(a)
    \/ \E i \in 1..MaxCalls : WindowCall(i)
    \/ \E a \in Apps : Cleanup(a)

SpecConc == Init /\ [][NextConc]_vars

\* The Go scheduler runs every goroutine that can take a step.
FairSpec ==
    Spec /\ WF_vars(ListenerEmit) /\ WF_vars(ListenerExit) /\ WF_vars(HandlerRecv)

\* The front-end's event loop also runs every callback that is due.
LiveSpec == FairSpec /\ WF_vars(\E a \in Apps : OnShowOverlay(a))

TypeOK ==
    /\ ctx \in [Apps -> BOOLEAN]
    /\ hk \in [Apps -> {NIL, HK}]
    /\ hotkeyInitOnce \in BOOLEAN
    /\ hotkeyEvents \in 0..RelayCapacity
    /\ registered \in BOOLEAN
    /\ keydown \in 0..MaxPending
    /\ events \in 0..MaxPending
    /\ keydownClosed \in BOOLEAN
    /\ listener \in {"none", "running", "exited"}
    /\ handler \in {"none", "running", "exited"}
    /\ subscribed \in BOOLEAN
    /\ win \in [visible : BOOLEAN, centered : BOOLEAN, onTop : BOOLEAN]
    /\ prev \in [visible : BOOLEAN, centered : BOOLEAN, onTop : BOOLEAN]
    /\ lastOp \in ShowOps \cup HideOps \cup {"none"}
    /\ unregCalls \in 0..MaxUnregCalls
    /\ regAttempts \in 0..1
    /\ Len(running) <= MaxCalls
    /\ cleanupRet \in {"none", "false"}
    /\ latePress \in BOOLEAN

\* Nothing sends on hotkeyEvents, so the handler goroutine's receive is
\* never enabled and it is not a step of Next.
HandlerNeverReceives == ~ENABLED HandlerRecv


\* ----------------------------------------------------------------- claims

\* C1: once a hotkey notification has been processed (the listener emitted
\* "show-overlay" and the front-end callback ran ShowOverlay), the window is
\* visible, whether it was hidden or visible before.
C1_HotkeyShows == lastOp = "onHotkey" => win.visible

C1_Witness == lastOp = "onHotkey" /\ prev.visible /\ win.visible

\* C2: after the Escape handler or OnWindowBlur has run, the window is
\* hidden, whether it was hidden or visible before.
C2_EscapeBlurHide == lastOp \in {"onEscape", "onBlur"} => ~win.visible

C2_Witness == lastOp = "onBlur" /\ prev.visible /\ ~win.visible

\* C3: after any sequence of show/hide operations the window is visible
\* exactly when the last one was a show, and a show of a visible window or a
\* hide of a hidden window leaves the window as it was.
LastCallWins ==
    /\ lastOp \in ShowOps => win.visible
    /\ lastOp \in HideOps => ~win.visible

RepeatIsNoOp ==
    /\ (win.visible /\ lastOp' \in ShowOps) => win' = win
    /\ (~win.visible /\ lastOp' \in HideOps) => win' = win

C3_LastCallIdempotent == [][LastCallWins' /\ RepeatIsNoOp]_vars

C3_Witness == lastOp = "show" /\ prev.visible /\ win = prev

\* C4: every ShowOverlay makes the window calls show, center,
\* setAlwaysOnTop(true), each once and in that order, and leaves the window
\* visible.
C4_ShowCallOrder ==
    lastOp \in ShowOps =>
        /\ calls = << "show", "center", "setAlwaysOnTop(true)" >>
        /\ win.visible

C4_Witness ==
    /\ lastOp = "onHotkey"
    /\ ~prev.visible
    /\ win.visible
    /\ calls = << "show", "center", "setAlwaysOnTop(true)" >>

\* C5: a hide operation (HideOverlay, the Escape handler, OnWindowBlur)
\* makes the single window call hide, leaves the window hidden, and changes
\* neither the always-on-top setting, the position, nor the hotkey
\* registration.
HideIsOnlyHide ==
    lastOp \in HideOps =>
        /\ calls = << "hide" >>
        /\ ~win.visible
        /\ win.onTop = prev.onTop
        /\ win.centered = prev.centered

AnyHide ==
    \E a \in Apps : HideOverlay(a) \/ OnWindowBlur(a) \/ handleEscape(a, "Escape")

C5_HideFrame ==
    [][ /\ HideIsOnlyHide'
        /\ AnyHide => (registered' = registered /\ hk' = hk /\ win'.onTop = win.onTop)
      ]_vars

C5_Witness ==
    /\ lastOp = "onEscape"
    /\ prev.visible /\ prev.onTop
    /\ ~win.visible /\ win.onTop
    /\ calls = << "hide" >>
    /\ registered

\* C6: once Unregister has succeeded (the Keydown channel is closed), the
\* binding is released and no new notification enters the program: the
\* notifications in flight (queued key-downs plus emitted "show-overlay"
\* events) only drain, so a key pressed afterwards causes no emit and no show.
InFlight == keydown + events

RegFailed == hotkeyInitOnce /\ ~registered /\ \A a \in Apps : hk[a] = NIL

C7_DegradesGracefully ==
    RegFailed =>
        /\ unregCalls = 0
        /\ \A a \in Apps : ENABLED Cleanup(a)
        /\ \A a \in Apps : ctx[a] => ENABLED ShowOverlay(a) /\ ENABLED HideOverlay(a)
        /\ lastOp \in ShowOps =>
               win.visible /\ calls = << "show", "center", "setAlwaysOnTop(true)" >>
        /\ lastOp \in HideOps => ~win.visible /\ calls = << "hide" >>

C7_Witness ==
    /\ RegFailed
    /\ cleanupRet = "false"
    /\ lastOp = "hide"
    /\ prev.visible
    /\ ~win.visible

\* C8: the hand-off from the hotkey listener to the UI holds at most one
\* pending show request (capacity 1, a second notification is coalesced), so
\* two rapid notifications never leave two show cycles queued.
C8_AtMostOnePendingShow == events <= RelayCapacity

\* C9: the hotkey's Unregister is invoked at most once, whatever sequence of
\* startup and Cleanup calls is made.
C9_UnregisterAtMostOnce == unregCalls <= 1

\* C10: once Cleanup has unregistered the hotkey, both goroutines started by
\* startup (the Keydown listener and the hotkeyEvents handler) eventually
\* exit.
C10_TasksExit == keydownClosed ~> (listener = "exited" /\ handler = "exited")

\* The Keydown listener alone does exit.
ListenerExits == keydownClosed ~> (listener = "exited")

\* C11: window mutation is serialized: no hide call of another invocation
\* lands between the window calls of a ShowOverlay in progress, and when all
\* calls have returned the window is visible exactly when the call that
\* returned last was a show.
C11_SerializedMutation ==
    /\ \A i \in 1..Len(running) : ~running[i].cut
    /\ running = << >> => LastCallWins

\* The visibility part alone.
LastReturnWins == running = << >> => LastCallWins

NoNotificationLost ==
    subscribed =>
        /\ InFlight' >= InFlight - 1
        /\ InFlight' < InFlight => (lastOp' = "onHotkey" /\ win'.visible)

C13_PressEventuallyShows ==
    /\ [][NoNotificationLost]_vars
    /\ (subscribed /\ InFlight > 0 /\ lastOp # "onHotkey")
           ~> (lastOp = "onHotkey" /\ win.visible)

C13_Witness ==
    /\ subscribed
    /\ registered
    /\ InFlight = 0
    /\ lastOp = "onHotkey"
    /\ ~prev.visible
    /\ win.visible

\* C14: the window starts hidden and only show/hide operations touch it: a
\* step of startup or Cleanup makes no window call, the window changes only
\* when a show/hide operation runs, it becomes visible only by a show
\* operation, and before the first such operation it is as it was created.
LifecycleStep ==
    \/ ctx' # ctx
    \/ hotkeyInitOnce' # hotkeyInitOnce
    \/ regAttempts' # regAttempts
    \/ unregCalls' # unregCalls
    \/ cleanupRet' # cleanupRet

OnlyShowHideTouchWindow ==
    /\ LifecycleStep => UNCHANGED windowVars
    /\ win' # win => (lastOp' \in ShowOps \cup HideOps /\ prev' = win)
    /\ (win'.visible /\ ~win.visible) => lastOp' \in ShowOps
    /\ lastOp' = "none" => (win' = InitWindow /\ calls' = << >>)

C14_HiddenUntilShown == ~win.visible /\ [][OnlyShowHideTouchWindow]_vars

C14_Witness ==
    /\ hotkeyInitOnce
    /\ \A a \in Apps : ctx[a]
    /\ unregCalls > 0
    /\ cleanupRet = "false"
    /\ lastOp = "none"
    /\ ~win.visible

\* C15: Cleanup returns false whenever it returns: no call has ever returned
\* anything else, also not one whose Unregister failed, and Cleanup can be
\* called on every App, with or without a hotkey handle.
C15_CleanupReturnsFalse ==
    /\ cleanupRet \in {"none", "false"}
    /\ unregCalls > 0 => cleanupRet = "false"
    /\ \A a \in Apps : (hk[a] = NIL \/ unregCalls < MaxUnregCalls) => ENABLED Cleanup(a)

\* Two Unregister calls were made, so one of them returned an error.
C15_Witness ==
    /\ unregCalls >= 2
    /\ keydownClosed
    /\ \E a \in Apps : hk[a] = NIL /\ ctx[a]
    /\ cleanupRet = "false"

\* C16: whatever startup calls are made on whatever Apps, Register is invoked
\* at most once, at most one App ever holds a hotkey handle, and once the
\* guard is consumed no startup call registers again, assigns a.hk or starts
\* a listener or handler goroutine.
Holders == {a \in Apps : hk[a] # NIL}

RegisteredOnce ==
    /\ regAttempts <= 1
    /\ hotkeyInitOnce <=> regAttempts = 1
    /\ Cardinality(Holders) <= 1
    /\ (listener # "none" \/ handler # "none") => Cardinality(Holders) = 1

GuardConsumed ==
    hotkeyInitOnce =>
        /\ regAttempts' = regAttempts
        /\ hk' = hk
        /\ handler' = handler
        /\ listener' # listener => listener' = "exited"
        /\ registered' => registered

C16_OnceGuard == [][RegisteredOnce' /\ GuardConsumed]_vars

C16_Witness ==
    /\ \A a \in Apps : ctx[a]
    /\ hotkeyInitOnce
    /\ registered
    /\ Cardinality(Holders) = 1
    /\ listener = "running"
    /\ handler = "running"

\* C17: a failed registration is final and leaves nothing behind: Register
\* was invoked once, no goroutine was started, the Keydown channel does not
\* exist, no notification is queued and no "show-overlay" event is pending,
\* and the program stays in that condition whatever is called afterwards.
NothingLeftBehind ==
    RegFailed =>
        /\ regAttempts = 1
        /\ listener = "none"
        /\ handler = "none"
        /\ ~keydownClosed
        /\ keydown = 0
        /\ events = 0

C17_FailedRegistrationIsFinal ==
    [][NothingLeftBehind' /\ (RegFailed => RegFailed')]_vars

C17_Witness ==
    /\ RegFailed
    /\ \A a \in Apps : ctx[a]
    /\ subscribed
    /\ cleanupRet = "false"
    /\ lastOp = "show"
    /\ events = 0

\* C18: nothing ever sends on hotkeyEvents: the channel is empty in every
\* reachable state, the handler goroutine's receive is never enabled, and
\* every show operation is a step of the bound method ShowOverlay called from
\* outside or of the front-end's "show-overlay" callback.
ShowFromOutside ==
    (lastOp' \in ShowOps /\ windowVars' # windowVars) =>
        \E a \in Apps : ShowOverlay(a) \/ OnShowOverlay(a)

====
